---- MODULE Spec2Model ----
(***************************************************************************)
(* Model of main.py of RagApp_Medical_Backend: the two lookup tools        *)
(* (fetch_pubmed_articles, fetch_drug_side_effects), the POST /ask and     *)
(* GET / handlers, and the process-wide configuration they read.           *)
(*                                                                         *)
(* The handlers are `async def` without any await, so one handler runs to  *)
(* its response before the next one starts: the model has one handler      *)
(* frame and one tool frame.  The external HTTP APIs and the agent         *)
(* executor are the environment: every status, body and exception they can *)
(* deliver is drawn from small sets.                                       *)
(***************************************************************************)
EXTENDS Integers, Sequences, FiniteSets, TLC

(***************************************************************************)
(* Bounds of the model.                                                    *)
(***************************************************************************)
MaxIds == 2
MaxReactions == 2
MaxRequests == 2
MaxToolCalls == 2

(***************************************************************************)
(* JSON values, tagged by their type.  Bad is a body that is not JSON:     *)
(* response.json() raises on it.                                           *)
(***************************************************************************)
Bad == [t |-> "bad"]
JNull == [t |-> "null"]
JStr(s) == [t |-> "str", v |-> s]
JArr(q) == [t |-> "arr", v |-> q]
JObj(f) == [t |-> "obj", v |-> f]
EmptyObj == JObj([k \in {} |-> JNull])

(***************************************************************************)
(* Outcome of evaluating a piece of Python: a value, a raised exception    *)
(* (val is str(e)), or, for a whole function, a returned value.            *)
(***************************************************************************)
Ok(x) == [kind |-> "ok", val |-> x]
Ret(x) == [kind |-> "return", val |-> x]
Raise(m) == [kind |-> "raise", val |-> m]
NoOutcome == [kind |-> "none", val |-> ""]
NoResponse == [status_code |-> 0, body |-> JNull]

JSONDecodeError == "Expecting value: line 1 column 1 (char 0)"
NoneTypeName(j) == IF j.t = "null" THEN "NoneType" ELSE IF j.t = "str" THEN "str" ELSE "list"
AttributeError(j) == "'" \o NoneTypeName(j) \o "' object has no attribute 'get'"
NotIterable(j) == "argument of type '" \o NoneTypeName(j) \o "' is not iterable"
JoinTypeError == "can only join an iterable"
TransportErrors == {"Connection refused", "Read timed out"}

(* response.json() *)
json(resp) == IF resp.body.t = "bad" THEN Raise(JSONDecodeError) ELSE Ok(resp.body)

(* d.get(k, default) *)
get(d, k, default) ==
    IF d.t # "obj" THEN Raise(AttributeError(d))
    ELSE IF k \in DOMAIN d.v THEN Ok(d.v[k]) ELSE Ok(default)

(* Truthy as `x is not None` would have it *)
Truthy_not_none(j) == j.t # "null"

(* Python truth value of a JSON value: `if x`, `not x` *)
Truthy(j) ==
    CASE j.t = "null" -> FALSE
      [] j.t = "str" -> j.v # ""
      [] j.t = "arr" -> Len(j.v) > 0
      [] j.t = "obj" -> DOMAIN j.v # {}
      [] OTHER -> FALSE

(* sep.join(q) for a sequence q of strings *)
RECURSIVE JoinStr(_, _)
JoinStr(sep, q) ==
    IF Len(q) = 0 THEN ""
    ELSE IF Len(q) = 1 THEN q[1]
    ELSE q[1] \o sep \o JoinStr(sep, Tail(q))

(* sep.join(j) for a JSON value j: TypeError unless j is a list of strings *)
PyJoin(sep, j) ==
    IF j.t = "arr" /\ \A i \in 1..Len(j.v) : j.v[i].t = "str"
    THEN Ok(JoinStr(sep, [i \in 1..Len(j.v) |-> j.v[i].v]))
    ELSE Raise(JoinTypeError)

(* f"{x}" of a JSON value *)
Format(j) == IF j.t = "str" THEN j.v ELSE "None"

(* s contains sub as a substring *)
Contains(s, sub) ==
    \E i \in 1..(Len(s) - Len(sub) + 1) : SubSeq(s, i, i + Len(sub) - 1) = sub

(* the number of places of s where sub occurs *)
Occurrences(s, sub) ==
    Cardinality({i \in 1..(Len(s) - Len(sub) + 1) : SubSeq(s, i, i + Len(sub) - 1) = sub})

(***************************************************************************)
(* What the environment can deliver.                                       *)
(***************************************************************************)
Statuses == {200, 204, 404, 500}
Questions == {"what causes fever", "side effects of aspirin"}
SearchTerms == {"diabetes symptoms"}
DrugNames == {"aspirin"}
Answers == {"Fever is caused by infection.", "I can only answer medical questions."}
ModelErrors == {"429 Resource has been exhausted", "API key not valid"}
NoKey == "None"

Ids == {"1", "2"}
TitleOf(id) == IF id = "1" THEN "A" ELSE "B"
PubdateOf(id) == IF id = "1" THEN "2020" ELSE "2021"
IdLists == UNION {[1..n -> {JStr(i) : i \in Ids}] : n \in 0..MaxIds}

(* bodies the search endpoint may answer with *)
SearchBodies ==
    {Bad, JNull, EmptyObj,
     JObj("esearchresult" :> JNull),
     JObj("esearchresult" :> EmptyObj),
     JObj("esearchresult" :> JObj("idlist" :> JNull))}
    \cup {JObj("esearchresult" :> JObj("idlist" :> JArr(l))) : l \in IdLists}

(* the summary entry of one identifier *)
ArticlesOf(id) ==
    {JNull, EmptyObj,
     JObj("title" :> JStr(TitleOf(id))),
     JObj("pubdate" :> JStr(PubdateOf(id))),
     JObj("title" :> JStr(TitleOf(id)) @@ "pubdate" :> JStr(PubdateOf(id)))}
ResultMaps ==
    UNION {{f \in [S -> UNION {ArticlesOf(i) : i \in Ids}] :
               \A i \in S : f[i] \in ArticlesOf(i)} : S \in SUBSET Ids}
SummaryBodies ==
    {Bad, JNull, EmptyObj, JObj("result" :> JNull)}
    \cup {JObj("result" :> JObj(f)) : f \in ResultMaps}

Reactions ==
    {EmptyObj,
     JObj("reactionmeddrapt" :> JStr("Nausea")),
     JObj("reactionmeddrapt" :> JStr("Headache"))}
ReactionLists == UNION {[1..n -> Reactions] : n \in 0..MaxReactions}
FdaBodies ==
    {Bad, JNull, EmptyObj,
     JObj("results" :> JArr(<<>>)),
     JObj("results" :> JArr(<<EmptyObj>>)),
     JObj("results" :> JArr(<<JObj("patient" :> EmptyObj)>>))}
    \cup {JObj("results" :> JArr(<<JObj("patient" :> JObj("reaction" :> JArr(l)))>>)) :
             l \in ReactionLists}

(***************************************************************************)
(* Module-level names of main.py.                                          *)
(***************************************************************************)
PUBMED_API_URL == "https://eutils.ncbi.nlm.nih.gov/entrez/eutils/esearch.fcgi"
PUBMED_SUMMARY_API_URL == "https://eutils.ncbi.nlm.nih.gov/entrez/eutils/esummary.fcgi"
FDA_API_URL(drug_name) ==
    "https://api.fda.gov/drug/event.json?search=patient.drug.medicinalproduct:"
        \o drug_name \o "&limit=1"
pubmed_search_tool == "fetch_pubmed_articles"
fda_side_effects_tool == "fetch_drug_side_effects"
medical_prompt_template == "You are a medical assistant AI. {input} {agent_scratchpad}"
NoParams == [k \in {} |-> ""]

VARIABLES
    tools, prompt, llm, PUBMED_API_KEY, FDA_API_KEY,
    hpc, route, user_input, invoked, httpResponse, served, toolCalls,
    tpc, tool, arg, sent, response, id_list, summary_response, articles,
    detailed_responses, side_effects, outcome

globals == <<tools, prompt, llm, PUBMED_API_KEY, FDA_API_KEY>>
handler == <<hpc, route, user_input, invoked, httpResponse, served, toolCalls>>
frame == <<tpc, tool, arg, sent, response, id_list, summary_response, articles,
           detailed_responses, side_effects, outcome>>
vars == <<globals, handler, frame>>

(* the locals of a tool call that is not running *)
FrameCleared ==
    /\ tpc = "none" /\ tool = "" /\ arg = "" /\ sent = <<>>
    /\ response = NoResponse /\ id_list = JNull /\ summary_response = NoResponse
    /\ articles = JNull /\ detailed_responses = <<>> /\ side_effects = JNull
    /\ outcome = NoOutcome

(* the locals of a handler that is not running *)
HandlerCleared ==
    /\ route = "" /\ user_input = "" /\ invoked = NoOutcome
    /\ httpResponse = NoResponse /\ toolCalls = 0

Init ==
    /\ tools = <<pubmed_search_tool, fda_side_effects_tool>>
    /\ prompt = [template |-> medical_prompt_template,
                 input_variables |-> <<"input", "agent_scratchpad">>]
    /\ llm = [model |-> "gemini-1.5-flash"]
    /\ PUBMED_API_KEY \in {NoKey, "ncbi-key"}
    /\ FDA_API_KEY \in {NoKey, "fda-key"}
    /\ hpc = "idle" /\ served = 0
    /\ HandlerCleared
    /\ FrameCleared

(***************************************************************************)
(* fetch_pubmed_articles                                                   *)
(***************************************************************************)
NoArticlesFound == "No articles found for this search term."
NoTitle == "No title available"
NoPubdate == "No publication date available"

(* TryPubmed as `except requests.RequestException` would have it *)
TryPubmed_transport_only(o) ==
    IF o.kind = "raise" /\ o.val \in TransportErrors
    THEN Ret("Error fetching PubMed articles: " \o o.val) ELSE o

(* except Exception as e: return f"Error fetching PubMed articles: {str(e)}" *)
TryPubmed(o) ==
    IF o.kind = "raise" THEN Ret("Error fetching PubMed articles: " \o o.val) ELSE o

(* f"Error: Unable to fetch PubMed articles. Status code {response.status_code}." *)
SearchStatusError(code) ==
    "Error: Unable to fetch PubMed articles. Status code " \o ToString(code) \o "."

(* SummaryStatusError without the status code *)
SummaryStatusError_no_code(code) == "Error: Unable to fetch article summaries."

(* f"Error: Unable to fetch article summaries. Status code {summary_response.status_code}." *)
SummaryStatusError(code) ==
    "Error: Unable to fetch article summaries. Status code " \o ToString(code) \o "."

(* data.get("esearchresult", {}).get("idlist", []) of response.json() *)
SearchIdList(resp) ==
    LET data == json(resp) IN
    IF data.kind = "raise" THEN data
    ELSE LET esr == get(data.val, "esearchresult", EmptyObj) IN
         IF esr.kind = "raise" THEN esr
         ELSE get(esr.val, "idlist", JArr(<<>>))

(* What follows the search response: the outcome of the call when it ends  *)
(* here (NoOutcome when it goes on to the summary request), and the value  *)
(* of id_list.                                                             *)
PubmedAfterSearch(resp) ==
    IF resp.status_code # 200
    THEN [outcome |-> Ret(SearchStatusError(resp.status_code)), id_list |-> JNull]
    ELSE LET il == SearchIdList(resp) IN
         IF il.kind = "raise" THEN [outcome |-> il, id_list |-> JNull]
         ELSE IF ~Truthy(il.val)
              THEN [outcome |-> Ret(NoArticlesFound), id_list |-> il.val]
              ELSE LET ids == PyJoin(",", il.val) IN
                   IF ids.kind = "raise"
                   THEN [outcome |-> ids, id_list |-> il.val]
                   ELSE [outcome |-> NoOutcome, id_list |-> il.val]

(* What follows the summary response: the outcome when the call ends here, *)
(* and the value of articles.                                              *)
PubmedAfterSummary(resp) ==
    IF resp.status_code # 200
    THEN [outcome |-> Ret(SummaryStatusError(resp.status_code)), articles |-> JNull]
    ELSE LET summary_data == json(resp) IN
         IF summary_data.kind = "raise"
         THEN [outcome |-> summary_data, articles |-> JNull]
         ELSE LET res == get(summary_data.val, "result", EmptyObj) IN
              IF res.kind = "raise" THEN [outcome |-> res, articles |-> JNull]
              ELSE [outcome |-> NoOutcome, articles |-> res.val]

(* PubmedRecord reading the title under the key "Title" *)
PubmedRecord_wrong_key(arts, article_id) ==
    LET article == get(arts, article_id, EmptyObj) IN
    IF article.kind = "raise" THEN article
    ELSE LET title == get(article.val, "Title", JStr(NoTitle)) IN
         IF title.kind = "raise" THEN title
         ELSE LET pub_year == get(article.val, "pubdate", JStr(NoPubdate)) IN
              Ok("Title: " \o Format(title.val) \o ", Published: " \o Format(pub_year.val))

(* One pass of the loop body for article_id: the record it appends. *)
PubmedRecord(arts, article_id) ==
    LET article == get(arts, article_id, EmptyObj) IN
    IF article.kind = "raise" THEN article
    ELSE LET title == get(article.val, "title", JStr(NoTitle)) IN
         IF title.kind = "raise" THEN title
         ELSE LET pub_year == get(article.val, "pubdate", JStr(NoPubdate)) IN
              Ok("Title: " \o Format(title.val) \o ", Published: " \o Format(pub_year.val))

pubmed_search_request ==
    /\ tpc = "p_search"
    /\ sent' = Append(sent, [url |-> PUBMED_API_URL,
                             params |-> [db |-> "pubmed", term |-> arg, retmax |-> 5,
                                         retmode |-> "json", api_key |-> PUBMED_API_KEY]])
    /\ \/ \E e \in TransportErrors :
             /\ outcome' = TryPubmed(Raise(e))
             /\ tpc' = "returned"
             /\ UNCHANGED response
       \/ \E s \in Statuses, b \in SearchBodies :
             /\ response' = [status_code |-> s, body |-> b]
             /\ tpc' = "p_search_response"
             /\ UNCHANGED outcome
    /\ UNCHANGED <<globals, handler, tool, arg, id_list, summary_response, articles,
                   detailed_responses, side_effects>>

(* pubmed_search_response repeating the search after a non-200 answer *)
pubmed_search_response_retry ==
    /\ tpc = "p_search_response"
    /\ LET a == PubmedAfterSearch(response) IN
         /\ id_list' = a.id_list
         /\ outcome' = IF response.status_code # 200 THEN NoOutcome ELSE TryPubmed(a.outcome)
         /\ tpc' = IF response.status_code # 200 THEN "p_search"
                   ELSE IF a.outcome = NoOutcome THEN "p_summary" ELSE "returned"
    /\ UNCHANGED <<globals, handler, tool, arg, sent, response, summary_response,
                   articles, detailed_responses, side_effects>>

pubmed_search_response ==
    /\ tpc = "p_search_response"
    /\ LET a == PubmedAfterSearch(response) IN
         /\ id_list' = a.id_list
         /\ outcome' = TryPubmed(a.outcome)
         /\ tpc' = IF a.outcome = NoOutcome THEN "p_summary" ELSE "returned"
    /\ UNCHANGED <<globals, handler, tool, arg, sent, response, summary_response,
                   articles, detailed_responses, side_effects>>

pubmed_summary_request ==
    /\ tpc = "p_summary"
    /\ sent' = Append(sent, [url |-> PUBMED_SUMMARY_API_URL,
                             params |-> [db |-> "pubmed", id |-> PyJoin(",", id_list).val,
                                         retmode |-> "json", api_key |-> PUBMED_API_KEY]])
    /\ \/ \E e \in TransportErrors :
             /\ outcome' = TryPubmed(Raise(e))
             /\ tpc' = "returned"
             /\ UNCHANGED summary_response
       \/ \E s \in Statuses, b \in SummaryBodies :
             /\ summary_response' = [status_code |-> s, body |-> b]
             /\ tpc' = "p_summary_response"
             /\ UNCHANGED outcome
    /\ UNCHANGED <<globals, handler, tool, arg, response, id_list, articles,
                   detailed_responses, side_effects>>

pubmed_summary_response ==
    /\ tpc = "p_summary_response"
    /\ LET a == PubmedAfterSummary(summary_response) IN
         /\ articles' = a.articles
         /\ outcome' = TryPubmed(a.outcome)
         /\ tpc' = IF a.outcome = NoOutcome THEN "p_loop" ELSE "returned"
    /\ UNCHANGED <<globals, handler, tool, arg, sent, response, id_list,
                   summary_response, detailed_responses, side_effects>>

(* for article_id in id_list: ... detailed_responses.append(...) *)
pubmed_loop ==
    /\ tpc = "p_loop"
    /\ Len(detailed_responses) < Len(id_list.v)
    /\ LET rec == PubmedRecord(articles, id_list.v[Len(detailed_responses) + 1].v) IN
         IF rec.kind = "raise"
         THEN /\ outcome' = TryPubmed(rec)
              /\ tpc' = "returned"
              /\ UNCHANGED detailed_responses
         ELSE /\ detailed_responses' = Append(detailed_responses, rec.val)
              /\ UNCHANGED <<outcome, tpc>>
    /\ UNCHANGED <<globals, handler, tool, arg, sent, response, id_list,
                   summary_response, articles, side_effects>>

(* return " | ".join(detailed_responses) *)
pubmed_return ==
    /\ tpc = "p_loop"
    /\ Len(detailed_responses) = Len(id_list.v)
    /\ outcome' = TryPubmed(Ret(JoinStr(" | ", detailed_responses)))
    /\ tpc' = "returned"
    /\ UNCHANGED <<globals, handler, tool, arg, sent, response, id_list,
                   summary_response, articles, detailed_responses, side_effects>>

(***************************************************************************)
(* fetch_drug_side_effects                                                 *)
(***************************************************************************)
NoInformation == "No information available for this drug."
NoSideEffects == "No side effects listed for this drug."
NoDescription == "No description"

(* except Exception as e: return f"Error fetching drug information: {str(e)}" *)
TryFda(o) ==
    IF o.kind = "raise" THEN Ret("Error fetching drug information: " \o o.val) ELSE o

(* k in d *)
In(k, d) ==
    CASE d.t = "obj" -> Ok(k \in DOMAIN d.v)
      [] d.t = "arr" -> Ok(\E i \in 1..Len(d.v) : d.v[i] = JStr(k))
      [] d.t = "str" -> Ok(Contains(d.v, k))
      [] OTHER -> Raise(NotIterable(d))

(* len(x) *)
PyLen(x) ==
    CASE x.t = "arr" -> Ok(Len(x.v))
      [] x.t = "str" -> Ok(Len(x.v))
      [] x.t = "obj" -> Ok(Cardinality(DOMAIN x.v))
      [] OTHER -> Raise("object of type 'NoneType' has no len()")

(* f"Error: {response.status_code} - Unable to fetch data from FDA API" *)
FdaStatusError(code) ==
    "Error: " \o ToString(code) \o " - Unable to fetch data from FDA API"

(* HasResults as `len(data['results']) >= 0` would have it *)
HasResults_ge(n) == n >= 0

(* len(data['results']) > 0 *)
HasResults(n) == n > 0

(* data['results'][0].get('patient', {}).get('reaction', []) *)
FirstReactions(data) ==
    IF Len(data.v["results"].v) = 0 THEN Raise("list index out of range")
    ELSE LET first == data.v["results"].v[1]
             patient == get(first, "patient", EmptyObj)
         IN IF patient.kind = "raise" THEN patient
            ELSE get(patient.val, "reaction", JArr(<<>>))

(* What follows the adverse-event response: the outcome when the call ends *)
(* here (NoOutcome when it goes on to the reaction list), and the value of *)
(* side_effects.                                                           *)
FdaAfterResponse(resp) ==
    IF resp.status_code # 200
    THEN [outcome |-> Ret(FdaStatusError(resp.status_code)), side_effects |-> JNull]
    ELSE LET data == json(resp) IN
         IF data.kind = "raise" THEN [outcome |-> data, side_effects |-> JNull]
         ELSE LET has == In("results", data.val) IN
              IF has.kind = "raise" THEN [outcome |-> has, side_effects |-> JNull]
              ELSE IF ~has.val
                   THEN [outcome |-> Ret(NoInformation), side_effects |-> JNull]
                   ELSE LET n == PyLen(data.val.v["results"]) IN
                        IF n.kind = "raise" THEN [outcome |-> n, side_effects |-> JNull]
                        ELSE IF ~HasResults(n.val)
                             THEN [outcome |-> Ret(NoInformation), side_effects |-> JNull]
                             ELSE LET r == FirstReactions(data.val) IN
                                  IF r.kind = "raise"
                                  THEN [outcome |-> r, side_effects |-> JNull]
                                  ELSE [outcome |-> NoOutcome, side_effects |-> r.val]

(* SideEffectDescriptions leaving out the reactions without a description *)
RECURSIVE SideEffectDescriptions_skip(_)
SideEffectDescriptions_skip(q) ==
    IF Len(q) = 0 THEN Ok(<<>>)
    ELSE LET rest == SideEffectDescriptions_skip(Tail(q)) IN
         IF q[1].t # "obj" THEN Raise(AttributeError(q[1]))
         ELSE IF rest.kind = "raise" THEN rest
         ELSE IF "reactionmeddrapt" \in DOMAIN q[1].v
              THEN Ok(<<q[1].v["reactionmeddrapt"]>> \o rest.val)
              ELSE rest

(* [reaction.get('reactionmeddrapt', 'No description') for reaction in q] *)
RECURSIVE SideEffectDescriptions(_)
SideEffectDescriptions(q) ==
    IF Len(q) = 0 THEN Ok(<<>>)
    ELSE LET d == get(q[1], "reactionmeddrapt", JStr(NoDescription)) IN
         IF d.kind = "raise" THEN d
         ELSE LET rest == SideEffectDescriptions(Tail(q)) IN
              IF rest.kind = "raise" THEN rest ELSE Ok(<<d.val>> \o rest.val)

(* lines 88-93: the value returned once side_effects is known *)
FdaReturn(effects) ==
    IF Truthy(effects)
    THEN LET side_effect_descriptions == SideEffectDescriptions(effects.v) IN
         IF side_effect_descriptions.kind = "raise" THEN side_effect_descriptions
         ELSE LET joined == PyJoin(", ", JArr(side_effect_descriptions.val)) IN
              IF joined.kind = "raise" THEN joined ELSE Ret(joined.val)
    ELSE Ret(NoSideEffects)

fda_request ==
    /\ tpc = "f_request"
    /\ sent' = Append(sent, [url |-> FDA_API_URL(arg), params |-> NoParams])
    /\ \/ \E e \in TransportErrors :
             /\ outcome' = TryFda(Raise(e))
             /\ tpc' = "returned"
             /\ UNCHANGED response
       \/ \E s \in Statuses, b \in FdaBodies :
             /\ response' = [status_code |-> s, body |-> b]
             /\ tpc' = "f_response"
             /\ UNCHANGED outcome
    /\ UNCHANGED <<globals, handler, tool, arg, id_list, summary_response, articles,
                   detailed_responses, side_effects>>

fda_response ==
    /\ tpc = "f_response"
    /\ LET a == FdaAfterResponse(response) IN
         /\ side_effects' = a.side_effects
         /\ outcome' = TryFda(a.outcome)
         /\ tpc' = IF a.outcome = NoOutcome THEN "f_reactions" ELSE "returned"
    /\ UNCHANGED <<globals, handler, tool, arg, sent, response, id_list,
                   summary_response, articles, detailed_responses>>

fda_return ==
    /\ tpc = "f_reactions"
    /\ outcome' = TryFda(FdaReturn(side_effects))
    /\ tpc' = "returned"
    /\ UNCHANGED <<globals, handler, tool, arg, sent, response, id_list,
                   summary_response, articles, detailed_responses, side_effects>>

(***************************************************************************)
(* The agent executor, as main.py uses it: agent_executor.invoke runs,     *)
(* may call the registered tools one after the other, and ends by          *)
(* returning a value or raising.                                           *)
(***************************************************************************)
ToolArgs(name) == IF name = pubmed_search_tool THEN SearchTerms ELSE DrugNames

AgentCallsTool ==
    /\ hpc = "invoking" /\ tpc = "none"
    /\ toolCalls < MaxToolCalls
    /\ \E i \in 1..Len(tools) : \E a \in ToolArgs(tools[i]) :
          /\ tool' = tools[i]
          /\ arg' = a
          /\ tpc' = IF tools[i] = pubmed_search_tool THEN "p_search" ELSE "f_request"
    /\ toolCalls' = toolCalls + 1
    /\ UNCHANGED <<globals, hpc, route, user_input, invoked, httpResponse, served,
                   sent, response, id_list, summary_response, articles,
                   detailed_responses, side_effects, outcome>>

(* The tool call ends: its frame is dropped; a value goes back to the      *)
(* agent, an exception leaves invoke.                                      *)
AgentTakesResult ==
    /\ hpc = "invoking" /\ tpc = "returned"
    /\ tpc' = "none" /\ tool' = "" /\ arg' = "" /\ sent' = <<>>
    /\ response' = NoResponse /\ id_list' = JNull /\ summary_response' = NoResponse
    /\ articles' = JNull /\ detailed_responses' = <<>> /\ side_effects' = JNull
    /\ outcome' = NoOutcome
    /\ IF outcome.kind = "raise"
       THEN invoked' = outcome /\ hpc' = "finished"
       ELSE UNCHANGED <<invoked, hpc>>
    /\ UNCHANGED <<globals, route, user_input, httpResponse, served, toolCalls>>

InvokeReturns ==
    /\ hpc = "invoking" /\ tpc = "none"
    /\ \E r \in Answers : invoked' = Ret(r)
    /\ hpc' = "finished"
    /\ UNCHANGED <<globals, route, user_input, httpResponse, served, toolCalls, frame>>

InvokeRaises ==
    /\ hpc = "invoking" /\ tpc = "none"
    /\ \E e \in ModelErrors : invoked' = Raise(e)
    /\ hpc' = "finished"
    /\ UNCHANGED <<globals, route, user_input, httpResponse, served, toolCalls, frame>>

(***************************************************************************)
(* The HTTP handlers                                                       *)
(***************************************************************************)
(* AskResponse with a fixed detail that leaves the exception out *)
AskResponse_generic(o) ==
    IF o.kind = "raise"
    THEN [status_code |-> 500, body |-> [detail |-> "Error processing request"]]
    ELSE [status_code |-> 200, body |-> [response |-> o.val]]

(* lines 175-182: the response of POST /ask for an outcome of invoke *)
AskResponse(o) ==
    IF o.kind = "raise"
    THEN [status_code |-> 500,
          body |-> [detail |-> "Error processing request: " \o o.val]]
    ELSE [status_code |-> 200, body |-> [response |-> o.val]]

(* ask_question substituting the question into the shared template *)
ask_question_format_shared ==
    /\ hpc = "idle" /\ served < MaxRequests
    /\ \E q \in Questions :
          /\ user_input' = q
          /\ prompt' = [prompt EXCEPT !.template = q]
    /\ route' = "/ask"
    /\ hpc' = "invoking"
    /\ UNCHANGED <<tools, llm, PUBMED_API_KEY, FDA_API_KEY, invoked, httpResponse,
                   served, toolCalls, frame>>

ask_question ==
    /\ hpc = "idle" /\ served < MaxRequests
    /\ \E q \in Questions : user_input' = q
    /\ route' = "/ask"
    /\ hpc' = "invoking"
    /\ UNCHANGED <<globals, invoked, httpResponse, served, toolCalls, frame>>

ask_question_respond ==
    /\ hpc = "finished"
    /\ httpResponse' = AskResponse(invoked)
    /\ hpc' = "responded"
    /\ UNCHANGED <<globals, route, user_input, invoked, served, toolCalls, frame>>

root ==
    /\ hpc = "idle" /\ served < MaxRequests
    /\ route' = "/"
    /\ httpResponse' = [status_code |-> 200,
                        body |-> [message |-> "Welcome to the Medical Assistant API!"]]
    /\ hpc' = "responded"
    /\ UNCHANGED <<globals, user_input, invoked, served, toolCalls, frame>>

(* The response is sent and the handler's frame is gone. *)
SendResponse ==
    /\ hpc = "responded"
    /\ hpc' = "idle"
    /\ route' = "" /\ user_input' = "" /\ invoked' = NoOutcome
    /\ httpResponse' = NoResponse /\ toolCalls' = 0
    /\ served' = served + 1
    /\ UNCHANGED <<globals, frame>>

Next ==
    \/ ask_question
    \/ AgentCallsTool
    \/ pubmed_search_request
    \/ pubmed_search_response
    \/ pubmed_summary_request
    \/ pubmed_summary_response
    \/ pubmed_loop
    \/ pubmed_return
    \/ fda_request
    \/ fda_response
    \/ fda_return
    \/ AgentTakesResult
    \/ InvokeReturns
    \/ InvokeRaises
    \/ ask_question_respond
    \/ root
    \/ SendResponse

Spec == Init /\ [][Next]_vars

(***************************************************************************)
(* Properties                                                              *)
(***************************************************************************)
PubmedReturned == tpc = "returned" /\ tool = pubmed_search_tool
FdaReturned == tpc = "returned" /\ tool = fda_side_effects_tool

(* C1: a POST /ask request gets no response before invoke has ended, and   *)
(* then the one its outcome determines: 200 with {response: r} for a       *)
(* returned r, 500 with a detail containing str(e) for a raised e.         *)
C1_AskResponseFollowsInvoke ==
    route = "/ask" =>
        /\ hpc \in {"invoking", "finished"} => httpResponse = NoResponse
        /\ hpc = "invoking" => invoked = NoOutcome
        /\ hpc \in {"finished", "responded"} => invoked.kind \in {"return", "raise"}
        /\ hpc = "responded" /\ invoked.kind = "return" =>
              /\ httpResponse.status_code = 200
              /\ DOMAIN httpResponse.body = {"response"}
              /\ httpResponse.body.response = invoked.val
        /\ hpc = "responded" /\ invoked.kind = "raise" =>
              /\ httpResponse.status_code = 500
              /\ DOMAIN httpResponse.body = {"detail"}
              /\ Contains(httpResponse.body.detail, invoked.val)

C1_Witness ==
    /\ route = "/ask" /\ hpc = "responded" /\ invoked.kind = "raise"
    /\ httpResponse.status_code = 500

(* C2: a finished tool call has returned a string, whatever the API did,   *)
(* and an exception leaving invoke is never one a tool raised.             *)
C2_ToolsReturnStrings ==
    /\ tpc = "returned" => outcome.kind = "return" /\ outcome.val \in STRING
    /\ invoked.kind = "raise" => invoked.val \in ModelErrors

C2_Witness ==
    /\ PubmedReturned /\ response.status_code = 200 /\ response.body = Bad
    /\ outcome = Ret("Error fetching PubMed articles: " \o JSONDecodeError)

(* `results` is absent from, or empty in, what the adverse-event API sent *)
ResultsAbsentOrEmpty(b) ==
    ~(b.t = "obj" /\ "results" \in DOMAIN b.v /\ Truthy(b.v["results"]))

(* C3 as stated: whenever `results` is absent or empty in what the         *)
(* adverse-event API returned, the lookup returns the fixed string.        *)
C3_AsStated ==
    (FdaReturned /\ response # NoResponse /\ ResultsAbsentOrEmpty(response.body))
        => outcome = Ret(NoInformation)

(* C3 amended: when the adverse-event API answers with status 200 and a    *)
(* JSON object in which `results` is absent or an empty list, the lookup   *)
(* returns exactly "No information available for this drug.".              *)
C3_NoInformation ==
    (/\ FdaReturned /\ response.status_code = 200 /\ response.body.t = "obj"
     /\ ResultsAbsentOrEmpty(response.body))
        => outcome = Ret("No information available for this drug.")

C3_Witness ==
    /\ FdaReturned /\ arg = "aspirin" /\ response.status_code = 200
    /\ response.body = EmptyObj /\ outcome = Ret(NoInformation)

(* C4: after a non-2xx answer to the search request or to the summary      *)
(* request, the returned string contains the status code.                  *)
C4_StatusCodeInError ==
    PubmedReturned =>
        /\ (response # NoResponse /\ response.status_code \notin 200..299)
              => Contains(outcome.val, ToString(response.status_code))
        /\ (summary_response # NoResponse /\ summary_response.status_code \notin 200..299)
              => Contains(outcome.val, ToString(summary_response.status_code))

C4_Witness ==
    /\ PubmedReturned /\ response.status_code = 200
    /\ summary_response.status_code = 404 /\ Contains(outcome.val, "404")

(* the body of a search answer carries a non-empty identifier list *)
HasIdList(b) ==
    /\ b.t = "obj" /\ "esearchresult" \in DOMAIN b.v
    /\ b.v["esearchresult"].t = "obj"
    /\ "idlist" \in DOMAIN b.v["esearchresult"].v
    /\ Truthy(b.v["esearchresult"].v["idlist"])

(* C5 as stated: a successful search answer whose identifier list is empty *)
(* or lacking gives the fixed string, never an error string.               *)
C5_AsStated ==
    (PubmedReturned /\ response.status_code = 200 /\ ~HasIdList(response.body))
        => outcome = Ret(NoArticlesFound)

(* C5 amended: a search answer with status 200 whose body is a JSON object *)
(* in which esearchresult is absent, or is an object whose idlist is       *)
(* absent or empty, gives exactly "No articles found for this search       *)
(* term.", and no summary request is made.                                 *)
C5_NoArticlesFound ==
    (/\ PubmedReturned /\ response.status_code = 200 /\ response.body.t = "obj"
     /\ \/ "esearchresult" \notin DOMAIN response.body.v
        \/ /\ response.body.v["esearchresult"].t = "obj"
           /\ ~HasIdList(response.body))
        => /\ outcome = Ret("No articles found for this search term.")
           /\ Len(sent) = 1

C5_Witness ==
    /\ PubmedReturned /\ response.status_code = 200
    /\ response.body = JObj("esearchresult" :> JObj("idlist" :> JArr(<<>>)))
    /\ outcome = Ret(NoArticlesFound)

(* the summary entry of identifier id in body b, when b has one that is an *)
(* object; the empty object otherwise                                      *)
EntryOf(b, id) ==
    IF /\ b.t = "obj" /\ "result" \in DOMAIN b.v /\ b.v["result"].t = "obj"
       /\ id \in DOMAIN b.v["result"].v /\ b.v["result"].v[id].t = "obj"
    THEN b.v["result"].v[id].v
    ELSE [k \in {} |-> JNull]

(* the record C6 describes for identifier id *)
ExpectedRecord(b, id) ==
    LET e == EntryOf(b, id)
        t == IF "title" \in DOMAIN e THEN e["title"].v ELSE "No title available"
        p == IF "pubdate" \in DOMAIN e THEN e["pubdate"].v
             ELSE "No publication date available"
    IN "Title: " \o t \o ", Published: " \o p

(* the string C6 describes: the records of the identifiers of the search   *)
(* answer, in order, with " | " between them                               *)
ExpectedArticles ==
    LET ids == response.body.v["esearchresult"].v["idlist"].v
        recs == [i \in 1..Len(ids) |-> ExpectedRecord(summary_response.body, ids[i].v)]
    IN /\ Occurrences(outcome.val, " | ") = Len(ids) - 1
       /\ outcome.val = JoinStr(" | ", recs)
       /\ \A i \in 1..Len(ids) : Contains(outcome.val, recs[i])

(* every entry the loop looks up is an object or missing *)
WellFormedSummary(b, ids) ==
    /\ b.t = "obj"
    /\ "result" \in DOMAIN b.v =>
          /\ b.v["result"].t = "obj"
          /\ \A i \in 1..Len(ids) :
                ids[i].v \in DOMAIN b.v["result"].v
                    => b.v["result"].v[ids[i].v].t = "obj"

(* C6 as stated: both steps answered 200 and the identifier list is not    *)
(* empty, so one record per identifier is returned.                        *)
C6_AsStated ==
    (/\ PubmedReturned /\ response.status_code = 200 /\ HasIdList(response.body)
     /\ summary_response.status_code = 200)
        => outcome.kind = "return" /\ ExpectedArticles

(* C6 amended: when both steps answer 200 with a non-empty identifier list *)
(* and the summary body is a JSON object whose `result`, if present, is an *)
(* object whose entries for the identifiers are objects, the call returns  *)
(* one record "Title: {t}, Published: {p}" per identifier, in list order,  *)
(* joined by " | ", with the placeholders for what is missing.             *)
C6_Records ==
    (/\ PubmedReturned /\ response.status_code = 200 /\ HasIdList(response.body)
     /\ summary_response.status_code = 200
     /\ WellFormedSummary(summary_response.body,
                          response.body.v["esearchresult"].v["idlist"].v))
        => outcome.kind = "return" /\ ExpectedArticles

C6_Witness ==
    /\ PubmedReturned /\ arg = "diabetes symptoms"
    /\ id_list = JArr(<<JStr("1"), JStr("2")>>)
    /\ outcome = Ret("Title: A, Published: 2020 | Title: B, Published: No publication date available")

(* the reaction list of the first result of body b; empty when there is none *)
ReactionsOf(b) ==
    IF /\ b.t = "obj" /\ "results" \in DOMAIN b.v /\ b.v["results"].t = "arr"
       /\ Len(b.v["results"].v) > 0
       /\ b.v["results"].v[1].t = "obj" /\ "patient" \in DOMAIN b.v["results"].v[1].v
       /\ b.v["results"].v[1].v["patient"].t = "obj"
       /\ "reaction" \in DOMAIN b.v["results"].v[1].v["patient"].v
       /\ b.v["results"].v[1].v["patient"].v["reaction"].t = "arr"
    THEN b.v["results"].v[1].v["patient"].v["reaction"].v
    ELSE <<>>

C9_NoRetry ==
    /\ tool = pubmed_search_tool =>
          /\ Len(sent) <= 2
          /\ Len(sent) >= 1 => sent[1].url = PUBMED_API_URL
          /\ tpc \notin {"none", "p_search"} => Len(sent) >= 1
          /\ Len(sent) = 2 =>
                /\ sent[2].url = PUBMED_SUMMARY_API_URL
                /\ response.status_code = 200
                /\ HasIdList(response.body)
                /\ id_list = response.body.v["esearchresult"].v["idlist"]
          /\ (tpc = "returned" /\ (response = NoResponse \/ response.status_code # 200))
                => Len(sent) = 1
    /\ tool = fda_side_effects_tool =>
          /\ Len(sent) <= 1
          /\ tpc \notin {"none", "f_request"} =>
                Len(sent) = 1 /\ sent[1].url = FDA_API_URL(arg)
    /\ tool = "" => sent = <<>>

C9_Witness ==
    /\ PubmedReturned /\ Len(sent) = 2 /\ summary_response.status_code = 500

(* C10: no step of any request changes the tool registry, the prompt       *)
(* template, the model handle or the API keys, and when a request has been *)
(* answered nothing of its handler's or its tool calls' locals is left.    *)
C10_NoSharedWrites ==
    [][/\ globals' = globals
       /\ hpc' = "idle" => (HandlerCleared /\ FrameCleared)']_vars

C10_Witness ==
    /\ served >= 1 /\ route = "/ask" /\ hpc = "responded"
    /\ httpResponse.status_code = 500 /\ toolCalls >= 1
    /\ tools = <<pubmed_search_tool, fda_side_effects_tool>>

====
